---------------------------- MODULE Spec2Model ----------------------------
(***************************************************************************)
(* A model of humanseg_lite/module.py (class ShufflenetHumanSeg): the      *)
(* module object with its two predictors, the batch entry point segment,   *)
(* the per-frame entry point video_stream_segment, the video loop          *)
(* video_segment and the service wrapper serving_method.                   *)
(*                                                                         *)
(* Number representation.  uint8 arrays hold integers 0..255.  float32     *)
(* arrays hold fixed-point integers: the real x is stored as x * FX,       *)
(* truncated.  An array is a sequence of rows, each a sequence of pixels,  *)
(* so numpy's shape is <<Len(a), Len(a[1])>> = <<rows, cols>>.             *)
(***************************************************************************)
EXTENDS Integers, Sequences, FiniteSets, TLC

(* ------------------------------ bounds -------------------------------- *)
\* fixed-point scale of the float32 arrays
FX == 1000
\* the network's probabilities are the levels n / ProbDen, n in 0..ProbDen
ProbDen == 5
\* the working resolution standing for 192 (resize_h = resize_w)
WorkRes == 2
\* frames have 1 or MaxDim rows and 1 or MaxDim columns
MaxDim == 2
\* frame contents are the patterns 0..MaxContent
MaxContent == 2
\* a capture delivers at most MaxFrames frames; frame_id ranges over 1..MaxFrames
MaxFrames == 3
\* segment gets at most MaxImages images
MaxImages == 3
\* batch_size ranges over 1..MaxBatch
MaxBatch == 3
\* each of the two interleaved streams makes at most StreamLen calls
StreamLen == 2

(* --------------------------- array helpers ---------------------------- *)
Min(a, b) == IF a < b THEN a ELSE b
Max(a, b) == IF a > b THEN a ELSE b
Abs(a) == IF a < 0 THEN -a ELSE a
Clamp(x, lo, hi) == Max(lo, Min(hi, x))

\* numpy: a.shape[0], a.shape[1]
Shape(a) == <<Len(a), IF Len(a) = 0 THEN 0 ELSE Len(a[1])>>

\* np.zeros((h, w), dtype)
np_zeros(h, w) == [r \in 1..h |-> [c \in 1..w |-> 0]]

\* elementwise map of a 2-D array
MapArr(F(_), a) == [r \in 1..Len(a) |-> [c \in 1..Len(a[r]) |-> F(a[r][c])]]

\* every pixel of a equals v
AllPixels(a, v) == \A r \in 1..Len(a) : \A c \in 1..Len(a[r]) : a[r][c] = v

(* ------------------- OpenCV primitives (external) --------------------- *)
\* cv2 INTER_LINEAR source coordinate of output index j (1-based), as the
\* left neighbour a, right neighbour b and the weight f/d of b
LinCoord(j, inN, outN) ==
    LET num == (2 * j - 1) * inN - outN
        den == 2 * outN
        x0  == IF num < 0 THEN 0 ELSE num \div den
        f   == IF num < 0 THEN 0 ELSE num % den
    IN  IF x0 >= inN - 1
        THEN [a |-> inN, b |-> inN, f |-> 0, d |-> den]
        ELSE [a |-> x0 + 1, b |-> x0 + 2, f |-> f, d |-> den]

\* cv2.resize(src, dsize): dsize is (width, height) = (columns, rows); the
\* result has dsize[2] rows and dsize[1] columns, bilinearly interpolated
cv2_resize(src, dsize) ==
    LET inR == Len(src)
        inC == Len(src[1])
    IN  [i \in 1..dsize[2] |-> [j \in 1..dsize[1] |->
            LET y == LinCoord(i, inR, dsize[2])
                x == LinCoord(j, inC, dsize[1])
                top == (x.d - x.f) * src[y.a][x.a] + x.f * src[y.a][x.b]
                bot == (x.d - x.f) * src[y.b][x.a] + x.f * src[y.b][x.b]
            IN  ((y.d - y.f) * top + y.f * bot) \div (x.d * y.d)]]

\* BORDER_REFLECT_101 index into 1..n
Reflect101(i, n) ==
    IF n = 1 THEN 1
    ELSE IF i < 1 THEN 2 - i
    ELSE IF i > n THEN 2 * n - i
    ELSE i

\* the 3-tap kernel OpenCV uses for ksize 3, sigma 0: (1, 2, 1) / 4
Kernel3(d) == IF d = 0 THEN 2 ELSE 1

\* cv2.GaussianBlur(src, (3, 3), 0)
cv2_GaussianBlur(src) ==
    LET nR == Len(src)
        nC == Len(src[1])
        Tap(r, c, dr, dc) ==
            Kernel3(dr) * Kernel3(dc) * src[Reflect101(r + dr, nR)][Reflect101(c + dc, nC)]
        RowSum(r, c, dr) == Tap(r, c, dr, -1) + Tap(r, c, dr, 0) + Tap(r, c, dr, 1)
    IN  [r \in 1..nR |-> [c \in 1..nC |->
            (RowSum(r, c, -1) + RowSum(r, c, 0) + RowSum(r, c, 1)) \div 16]]


(* ------------------------------ frames -------------------------------- *)
\* the frames of the model: h rows, w columns, one intensity per pixel (the
\* three BGR channels are equal); pattern 0 is uniformly white
Pixel(k, r, c) == IF k = 0 THEN 255 ELSE (k * 97 * (r + c - 1)) % 256
FrameOf(h, w, k) == [r \in 1..h |-> [c \in 1..w |-> Pixel(k, r, c)]]
\* the frame sizes <<rows, columns>> of the model: tall, wide and square
Sizes == {<<MaxDim, 1>>, <<1, MaxDim>>, <<MaxDim, MaxDim>>}
Frames == {FrameOf(sz[1], sz[2], k) : sz \in Sizes, k \in 0..MaxContent}

resize_h == WorkRes
resize_w == WorkRes

(* -------- helpers of the package that module.py imports --------------- *)
\* data_feed.preprocess_v(img, w, h): resize to (w, h), scale to [-1, 1]
preprocess_v(img, w, h) ==
    LET Norm(x) == 2 * ((x * FX) \div 255) - FX
    IN  MapArr(Norm, cv2_resize(img, <<w, h>>))

\* data_feed.reader(images, paths): one record per input image, in order
reader(images) ==
    [i \in 1..Len(images) |->
        [org_im |-> images[i],
         org_im_shape |-> Shape(images[i]),
         image |-> preprocess_v(images[i], resize_w, resize_h)]]

\* processor.postprocess(data_out, org_im, org_im_shape, ...): the score
\* resized to the original image's shape
postprocess(data_out, org_im, org_im_shape) ==
    [data |-> cv2_resize(data_out, <<org_im_shape[2], org_im_shape[1]>>)]

\* processor.cv2_to_base64 / base64_to_cv2: an image and its encoded text
cv2_to_base64(img) == [b64 |-> img]
base64_to_cv2(txt) == txt.b64

\* optimal.threshold_mask(img, thresh_bg, thresh_fg): 0 below thresh_bg,
\* 1 above thresh_fg, a linear ramp between (img on the 0..255 scale)
threshold_mask(img, thresh_bg, thresh_fg) ==
    LET Ramp(v) == Clamp((((v \div 255) - thresh_bg) * FX) \div (thresh_fg - thresh_bg), 0, FX)
    IN  MapArr(Ramp, img)

\* the dense flow between two gray frames, as a motion magnitude per pixel
\* (cv2.DISOpticalFlow, external): zero where the frames agree
MotionMagnitude(prev_gray, cur_gray) ==
    [r \in 1..Len(cur_gray) |-> [c \in 1..Len(cur_gray[r]) |->
        Abs(cur_gray[r][c] - prev_gray[r][c])]]

\* optimal.postprocess_v(cur_gray, scoremap, prev_gray, pre_cfd, disflow, is_init):
\* on is_init the fused map is the current map; otherwise
\* weight * previous + (1 - weight) * current with a weight that decreases
\* with the motion magnitude; clamped to the 0..255 scale
postprocess_v(cur_gray, scoremap, prev_gray, pre_cfd, is_init) ==
    LET m == MotionMagnitude(prev_gray, cur_gray)
        Fuse(r, c) ==
            LET wgt == Clamp(FX - m[r][c], 0, FX)
            IN  (wgt * pre_cfd[r][c] + (FX - wgt) * scoremap[r][c]) \div FX
    IN  [r \in 1..Len(scoremap) |-> [c \in 1..Len(scoremap[r]) |->
            Clamp(IF is_init THEN scoremap[r][c] ELSE Fuse(r, c), 0, 255 * FX)]]

(* --------------------- paddle.inference (external) -------------------- *)
\* the pretrained network on one preprocessed image: the foreground
\* probability per pixel (brighter is more foreground), a float in [0, 1]
Net(image) ==
    LET Level(t) == ((t + FX) * ProbDen) \div (2 * FX)
        Prob(t) == (FX * Level(t)) \div ProbDen
    IN  MapArr(Prob, image)

\* a predictor owns an input tensor and an output tensor
create_predictor(device) == [device |-> device, input |-> <<>>, output |-> <<>>]
copy_from_cpu(predictor, batch) == [predictor EXCEPT !.input = batch]
StaleRun(predictor) ==
    IF predictor.output # <<>> THEN predictor
    ELSE [predictor EXCEPT !.output = [i \in 1..Len(predictor.input) |-> Net(predictor.input[i])]]
run(predictor) ==
    [predictor EXCEPT !.output = [i \in 1..Len(predictor.input) |-> Net(predictor.input[i])]]
copy_to_cpu(predictor) == predictor.output

(* -------------------------- the environment --------------------------- *)
\* os.environ's entry CUDA_VISIBLE_DEVICES: unset, or a string of characters
Digits == {"0", "1", "2", "3", "4", "5", "6", "7", "8", "9"}
Unset == [has |-> FALSE, val |-> <<>>]
EnvValues ==
    {Unset} \cup {[has |-> TRUE, val |-> v] : v \in {<<>>, <<"0">>, <<"x">>, <<"1", ",", "2">>}}

\* try: _places = os.environ["CUDA_VISIBLE_DEVICES"]; int(_places[0])  succeeds
EnvOK(e) == e.has /\ Len(e.val) > 0 /\ e.val[1] \in Digits

(* ------------------------------- state -------------------------------- *)
VARIABLES
    environ,    \* os.environ's CUDA_VISIBLE_DEVICES entry
    self,       \* the module object: its attributes and its two predictors
    op,         \* "new", "idle", the call in progress ("segment", "video_segment"),
                \* or "done": a call has ended and its caller holds the result
    outcome,    \* how the last call ended: "none", "returned" or the exception
    effects,    \* what the call in progress (or the last call) did outside itself
    seg,        \* segment's arguments and locals
    vid,        \* video_segment's arguments and locals
    sc,         \* the last video_stream_segment call: arguments, fusion call, result
    streams     \* two callers of video_stream_segment, each threading its own state

vars == <<environ, self, op, outcome, effects, seg, vid, sc, streams>>

\* an object attribute that was never assigned holds no predictor
NoPredictor == create_predictor("none")
NewObject == [attrs |-> {}, cpu_predictor |-> NoPredictor, gpu_predictor |-> NoPredictor]

\* __init__ and _set_config: the CPU predictor always, the GPU predictor only
\* when CUDA_VISIBLE_DEVICES starts with a digit at construction
_set_config(slf, e) ==
    IF EnvOK(e)
    THEN [attrs |-> slf.attrs \cup {"cpu_predictor", "gpu_predictor"},
          cpu_predictor |-> create_predictor("cpu"),
          gpu_predictor |-> create_predictor("gpu")]
    ELSE [slf EXCEPT !.attrs = @ \cup {"cpu_predictor"},
                     !.cpu_predictor = create_predictor("cpu")]

\* predictor = self.gpu_predictor if use_gpu else self.cpu_predictor
PredictorAttr(use_gpu) == IF use_gpu THEN "gpu_predictor" ELSE "cpu_predictor"
HasAttr(slf, a) == a \in slf.attrs
GetPredictor(slf, a) == IF a = "gpu_predictor" THEN slf.gpu_predictor ELSE slf.cpu_predictor
SetPredictor(slf, a, p) ==
    IF a = "gpu_predictor" THEN [slf EXCEPT !.gpu_predictor = p]
    ELSE [slf EXCEPT !.cpu_predictor = p]

\* input_handle.copy_from_cpu(batch); predictor.run(); output_handle.copy_to_cpu():
\* the predictor after the run and the output read from it
Infer(predictor, batch) ==
    LET p == run(copy_from_cpu(predictor, batch))
    IN  [predictor |-> p, output |-> copy_to_cpu(p)]

\* the use_gpu check at the head of segment and video_segment: whether it
\* reads the environment, and whether it raises RuntimeError
GpuCheckUnsetOnly(use_gpu, e) == use_gpu /\ ~e.has
GpuCheckRaises(use_gpu, e) == use_gpu /\ ~EnvOK(e)
GpuCheckEffects(use_gpu) == IF use_gpu THEN {"environ"} ELSE {}

NoSeg == [pc |-> "none", images |-> <<>>, batch_size |-> 1, use_gpu |-> FALSE,
          serving |-> FALSE, all_data |-> <<>>, iter_id |-> 0, res |-> <<>>,
          ret |-> <<>>, used |-> {}]
NoPv == [n |-> 0, is_init |-> FALSE, prev_gray |-> <<>>, prev_cfd |-> <<>>]
NoFusion == [n |-> 0, gray |-> <<>>, cfd |-> <<>>]
NoVid == [pc |-> "none", has_path |-> FALSE, use_gpu |-> FALSE,
          cap |-> [opens |-> FALSE, width |-> 0, height |-> 0],
          width |-> 0, height |-> 0, is_init |-> FALSE,
          prev_gray |-> <<>>, prev_cfd |-> <<>>, n |-> 0,
          frame_org |-> <<>>, frame |-> <<>>, output |-> <<>>,
          cur_gray |-> <<>>, score_map |-> <<>>, optflow_map |-> <<>>,
          img_matting |-> <<>>, used |-> {},
          pv |-> NoPv, fusion |-> NoFusion,
          before |-> [gray |-> <<>>, cfd |-> <<>>], first |-> <<>>, static |-> TRUE]
NoSc == [called |-> FALSE, outcome |-> "none", frame_org |-> <<>>, frame_id |-> 0,
         prev_gray |-> <<>>, prev_cfd |-> <<>>, use_gpu |-> FALSE,
         pv |-> NoPv, fused |-> <<>>, ret |-> <<>>, caller_after |-> <<>>, used |-> {}]
NoStreams == <<>>

(* ------------------------------- segment ------------------------------ *)
\* loop_num = int(np.ceil(total_num / batch_size))
loop_num_floor(total_num, batch_size) == total_num \div batch_size
loop_num(total_num, batch_size) == (total_num + batch_size - 1) \div batch_size

\* all_data[j] with Python's indexing: 0-based, a negative j counts from the
\* end, anything else raises IndexError
PyIndexValid(j, n) == -n <= j /\ j < n
PyIndex(a, j) == IF j >= 0 THEN a[j + 1] ELSE a[Len(a) + j + 1]

\* the batch of iteration iter_id: all_data[handle_id + image_id] for image_id
\* in range(batch_size), an index that raises skipped
RECURSIVE CollectBatch(_, _, _, _)
CollectBatch(all_data, handle_id, image_id, batch_size) ==
    IF image_id >= batch_size THEN <<>>
    ELSE (IF PyIndexValid(handle_id + image_id, Len(all_data))
          THEN <<PyIndex(all_data, handle_id + image_id)>>
          ELSE <<>>) \o CollectBatch(all_data, handle_id, image_id + 1, batch_size)

batch_data(all_data, iter_id, batch_size) ==
    LET handle_id == iter_id * batch_size
    IN  CollectBatch(all_data, handle_id, 0, batch_size)

\* segment(images=..., batch_size=..., use_gpu=...) is called
SegmentCall(ImageSeqs, BatchSizes, GpuFlags) ==
    /\ op = "idle"
    /\ \E images \in ImageSeqs, batch_size \in BatchSizes, use_gpu \in GpuFlags :
          seg' = [NoSeg EXCEPT !.pc = "check", !.images = images,
                               !.batch_size = batch_size, !.use_gpu = use_gpu]
    /\ op' = "segment"
    /\ outcome' = "none"
    /\ effects' = {}
    /\ vid' = NoVid
    /\ sc' = NoSc
    /\ UNCHANGED <<environ, self, streams>>

\* serving_method(images): decodes the images, calls segment with its defaults
ServingCall(ImageSeqs) ==
    /\ op = "idle"
    /\ \E images \in ImageSeqs :
          LET encoded == [i \in 1..Len(images) |-> cv2_to_base64(images[i])]
              images_decode == [i \in 1..Len(encoded) |-> base64_to_cv2(encoded[i])]
          IN  seg' = [NoSeg EXCEPT !.pc = "check", !.images = images_decode,
                                   !.serving = TRUE]
    /\ op' = "segment"
    /\ outcome' = "none"
    /\ effects' = {}
    /\ vid' = NoVid
    /\ sc' = NoSc
    /\ UNCHANGED <<environ, self, streams>>

\* lines 104-111: the use_gpu check
SegCheck ==
    /\ op = "segment" /\ seg.pc = "check"
    /\ effects' = effects \cup GpuCheckEffects(seg.use_gpu)
    /\ IF GpuCheckRaises(seg.use_gpu, environ)
       THEN /\ outcome' = "RuntimeError"
            /\ op' = "done"
            /\ seg' = [seg EXCEPT !.pc = "raised"]
       ELSE /\ seg' = [seg EXCEPT !.pc = "read"]
            /\ UNCHANGED <<op, outcome>>
    /\ UNCHANGED <<environ, self, vid, sc, streams>>

\* lines 113-120: all the inputs are read, then the batches are counted
SegRead ==
    /\ op = "segment" /\ seg.pc = "read"
    /\ seg' = [seg EXCEPT !.pc = "batch", !.all_data = reader(seg.images),
                          !.iter_id = 0, !.res = <<>>]
    /\ effects' = effects \cup {"reader"}
    /\ UNCHANGED <<environ, self, op, outcome, vid, sc, streams>>

\* lines 121-150: one iteration of the batch loop
SegBatch ==
    /\ op = "segment" /\ seg.pc = "batch"
    /\ seg.iter_id < loop_num(Len(seg.all_data), seg.batch_size)
    /\ LET batch == batch_data(seg.all_data, seg.iter_id, seg.batch_size)
           batch_image == [i \in 1..Len(batch) |-> batch[i].image]
           attr == PredictorAttr(seg.use_gpu)
       IN  IF ~HasAttr(self, attr)
           THEN /\ outcome' = "AttributeError"
                /\ op' = "done"
                /\ seg' = [seg EXCEPT !.pc = "raised"]
                /\ UNCHANGED <<self, effects>>
           ELSE \E inf \in {Infer(GetPredictor(self, attr), batch_image)} :
                LET outs == [i \in 1..Len(batch) |->
                               postprocess(inf.output[i], batch[i].org_im,
                                           batch[i].org_im_shape)]
                IN  /\ self' = SetPredictor(self, attr, inf.predictor)
                    /\ seg' = [seg EXCEPT !.iter_id = @ + 1, !.res = @ \o outs,
                                          !.used = @ \cup {attr}]
                    /\ effects' = effects \cup {"run"}
                    /\ UNCHANGED <<op, outcome>>
    /\ UNCHANGED <<environ, vid, sc, streams>>

\* line 151 (and 328 under serving_method): the results are returned
SegReturn ==
    /\ op = "segment" /\ seg.pc = "batch"
    /\ seg.iter_id >= loop_num(Len(seg.all_data), seg.batch_size)
    /\ seg' = [seg EXCEPT !.pc = "returned",
                          !.ret = IF seg.serving
                                  THEN [i \in 1..Len(seg.res) |->
                                          [data |-> cv2_to_base64(seg.res[i].data)]]
                                  ELSE seg.res]
    /\ op' = "done"
    /\ outcome' = "returned"
    /\ UNCHANGED <<environ, self, effects, vid, sc, streams>>

(* ----------------- the per-frame pipeline (both entry points) ---------- *)
\* score_map = 255 * score_map[:, :, 1]
Unscaled(prob) == prob
ScaleScore(prob) == 255 * prob
ScoreMap(output) == MapArr(ScaleScore, output[1])

\* cur_gray = cv2.cvtColor(frame, BGR2GRAY); cur_gray = cv2.resize(cur_gray, (resize_w, resize_h))
GrayOf(frame) == cv2_resize(frame, <<resize_w, resize_h>>)

\* optflow_map = cv2.GaussianBlur(optflow_map, (3, 3), 0)
\* optflow_map = threshold_mask(optflow_map, thresh_bg=0.2, thresh_fg=0.8)
Finalize(optflow_map) ==
    threshold_mask(cv2_GaussianBlur(optflow_map), (2 * FX) \div 10, (8 * FX) \div 10)

(* ------------------------ video_stream_segment ------------------------ *)
\* width = frame_org.shape[0]; height = frame_org.shape[1];
\* cv2.resize(optflow_map, (height, width), ...)
StreamDsizeSwapped(frame_org) ==
    LET width == Shape(frame_org)[1]
        height == Shape(frame_org)[2]
    IN  <<width, height>>
StreamDsize(frame_org) ==
    LET width == Shape(frame_org)[1]
        height == Shape(frame_org)[2]
    IN  <<height, width>>

\* lines 192-197: the previous state handed to postprocess_v
StreamPrevKept(frame_id, prev_gray, prev_cfd) == [gray |-> prev_gray, cfd |-> prev_cfd]
StreamPrev(frame_id, prev_gray, prev_cfd) ==
    IF frame_id = 1
    THEN [gray |-> np_zeros(resize_h, resize_w), cfd |-> np_zeros(resize_h, resize_w)]
    ELSE [gray |-> prev_gray, cfd |-> prev_cfd]

\* the whole call: the module object after it, how it ended, what it returned,
\* the postprocess_v call it made (pv) with that call's result (fused), and the
\* caller's two arrays as the call left them
video_stream_segment(slf, frame_org, frame_id, prev_gray, prev_cfd, use_gpu) ==
    LET is_init == TRUE
        frame == preprocess_v(frame_org, resize_w, resize_h)
        attr == PredictorAttr(use_gpu)
        base == [NoSc EXCEPT !.called = TRUE, !.frame_org = frame_org,
                             !.frame_id = frame_id, !.prev_gray = prev_gray,
                             !.prev_cfd = prev_cfd, !.use_gpu = use_gpu,
                             !.caller_after = <<prev_gray, prev_cfd>>]
    IN  IF ~HasAttr(slf, attr)
        THEN [self |-> slf, call |-> [base EXCEPT !.outcome = "AttributeError"]]
        ELSE LET inf == Infer(GetPredictor(slf, attr), <<frame>>)
                 cur_gray == GrayOf(frame)
                 score_map == ScoreMap(inf.output)
                 prev == StreamPrev(frame_id, prev_gray, prev_cfd)
                 fused == postprocess_v(cur_gray, score_map, prev.gray, prev.cfd, is_init)
                 optflow_map == Finalize(fused)
                 img_matting == cv2_resize(optflow_map, StreamDsize(frame_org))
             IN  [self |-> SetPredictor(slf, attr, inf.predictor),
                  call |-> [base EXCEPT
                      !.outcome = "returned",
                      !.pv = [n |-> frame_id, is_init |-> is_init,
                              prev_gray |-> prev.gray, prev_cfd |-> prev.cfd],
                      !.fused = fused,
                      !.ret = <<img_matting, cur_gray, optflow_map>>,
                      !.used = {attr}]]

\* one call of video_stream_segment with any arguments
StreamCall(FrameSet, FrameIds, Grays, Cfds, GpuFlags) ==
    /\ op = "idle"
    /\ \E frame_org \in FrameSet, frame_id \in FrameIds, prev_gray \in Grays,
          prev_cfd \in Cfds, use_gpu \in GpuFlags :
          \E r \in {video_stream_segment(self, frame_org, frame_id, prev_gray,
                                         prev_cfd, use_gpu)} :
              /\ self' = r.self
              /\ sc' = r.call
              /\ outcome' = r.call.outcome
              /\ effects' = IF r.call.outcome = "returned" THEN {"run"} ELSE {}
    /\ op' = "done"
    /\ seg' = NoSeg
    /\ vid' = NoVid
    /\ UNCHANGED <<environ, streams>>

(* ----------------------------- video_segment -------------------------- *)
\* width = CAP_PROP_FRAME_WIDTH; height = CAP_PROP_FRAME_HEIGHT;
\* cv2.resize(optflow_map, (width, height), ...)
VideoDsize(width, height) == <<width, height>>

\* the fusion state when postprocess_v raised at line 270: lines 271-272 did
\* not run
TornState(prev_gray, prev_cfd, cur_gray) == [gray |-> cur_gray, cfd |-> prev_cfd]
StateAfterFailedFuse(prev_gray, prev_cfd, cur_gray) == [gray |-> prev_gray, cfd |-> prev_cfd]

\* the captures of the model: whether the capture opens, and its frame size
Captures ==
    {[opens |-> o, width |-> sz[2], height |-> sz[1]] : o \in BOOLEAN, sz \in Sizes}

\* video_segment(video_path=..., use_gpu=...) is called
VideoCall(PathFlags, GpuFlags, CapSet) ==
    /\ op = "idle"
    /\ \E has_path \in PathFlags, use_gpu \in GpuFlags, cap \in CapSet :
          vid' = [NoVid EXCEPT !.pc = "check", !.has_path = has_path,
                               !.use_gpu = use_gpu, !.cap = cap]
    /\ op' = "video_segment"
    /\ outcome' = "none"
    /\ effects' = {}
    /\ seg' = NoSeg
    /\ sc' = NoSc
    /\ UNCHANGED <<environ, self, streams>>

\* lines 216-222: the use_gpu check
VidCheck ==
    /\ op = "video_segment" /\ vid.pc = "check"
    /\ effects' = effects \cup GpuCheckEffects(vid.use_gpu)
    /\ IF GpuCheckRaises(vid.use_gpu, environ)
       THEN /\ outcome' = "RuntimeError"
            /\ op' = "done"
            /\ vid' = [vid EXCEPT !.pc = "raised"]
       ELSE /\ vid' = [vid EXCEPT !.pc = "open"]
            /\ UNCHANGED <<op, outcome>>
    /\ UNCHANGED <<environ, self, seg, sc, streams>>

\* lines 224-249: the capture is opened, the fusion state is zeroed, and with
\* a video_path the output directory and writer are created
VidOpen ==
    /\ op = "video_segment" /\ vid.pc = "open"
    /\ IF ~vid.cap.opens
       THEN /\ outcome' = "IOError"
            /\ op' = "done"
            /\ vid' = [vid EXCEPT !.pc = "raised"]
            /\ effects' = effects \cup {"VideoCapture"}
       ELSE /\ vid' = [vid EXCEPT !.pc = "loop",
                                  !.width = vid.cap.width,
                                  !.height = vid.cap.height,
                                  !.prev_gray = np_zeros(resize_h, resize_w),
                                  !.prev_cfd = np_zeros(resize_h, resize_w),
                                  !.is_init = TRUE]
            /\ effects' = effects \cup {"VideoCapture"}
                             \cup (IF vid.has_path THEN {"makedirs", "VideoWriter"} ELSE {})
            /\ UNCHANGED <<op, outcome>>
    /\ UNCHANGED <<environ, self, seg, sc, streams>>

\* lines 251-253 / 286-288: cap_video.read() delivers the next frame
VidRead(Contents, Limit) ==
    /\ op = "video_segment" /\ vid.pc = "loop"
    /\ vid.n < Limit
    /\ \E k \in Contents :
          LET frame_org == FrameOf(vid.height, vid.width, k)
          IN  vid' = [vid EXCEPT !.pc = "infer", !.n = @ + 1,
                                 !.frame_org = frame_org,
                                 !.first = IF vid.n = 0 THEN frame_org ELSE @,
                                 !.static = vid.static /\ (vid.n = 0 \/ frame_org = vid.first)]
    /\ effects' = effects \cup {"read"}
    /\ UNCHANGED <<environ, self, op, outcome, seg, sc, streams>>

\* lines 251-253, 281-284 / 286-288, 317-319: the stream ended or the read
\* failed: the loop is left and the capture released
VidEnd ==
    /\ op = "video_segment" /\ vid.pc = "loop"
    /\ vid' = [vid EXCEPT !.pc = "released"]
    /\ op' = "done"
    /\ outcome' = "returned"
    /\ effects' = effects \cup {"read", "release"}
    /\ UNCHANGED <<environ, self, seg, sc, streams>>

\* lines 254-263 / 289-298: preprocessing and inference; the predictor may raise
VidInfer ==
    /\ op = "video_segment" /\ vid.pc = "infer"
    /\ LET frame == preprocess_v(vid.frame_org, resize_w, resize_h)
           attr == PredictorAttr(vid.use_gpu)
       IN  IF ~HasAttr(self, attr)
           THEN /\ outcome' = "AttributeError"
                /\ op' = "done"
                /\ vid' = [vid EXCEPT !.pc = "raised", !.frame = frame]
                /\ UNCHANGED <<self, effects>>
           ELSE \E raises \in BOOLEAN :
                  IF raises
                  THEN /\ outcome' = "InferenceError"
                       /\ op' = "done"
                       /\ vid' = [vid EXCEPT !.pc = "raised", !.frame = frame]
                       /\ self' = SetPredictor(self, attr,
                                     copy_from_cpu(GetPredictor(self, attr), <<frame>>))
                       /\ UNCHANGED effects
                  ELSE \E inf \in {Infer(GetPredictor(self, attr), <<frame>>)} :
                           /\ self' = SetPredictor(self, attr, inf.predictor)
                           /\ vid' = [vid EXCEPT !.pc = "fuse", !.frame = frame,
                                                 !.output = inf.output,
                                                 !.used = @ \cup {attr}]
                           /\ effects' = effects \cup {"run"}
                           /\ UNCHANGED <<op, outcome>>
    /\ UNCHANGED <<environ, seg, sc, streams>>

\* lines 265-270 / 300-305: the gray frame, the scaled score map and the
\* fusion step, which may raise
VidFuse ==
    /\ op = "video_segment" /\ vid.pc = "fuse"
    /\ LET cur_gray == GrayOf(vid.frame)
           score_map == ScoreMap(vid.output)
           pv == [n |-> vid.n, is_init |-> vid.is_init,
                  prev_gray |-> vid.prev_gray, prev_cfd |-> vid.prev_cfd]
       IN  \E raises \in BOOLEAN :
             IF raises
             THEN LET st == StateAfterFailedFuse(vid.prev_gray, vid.prev_cfd, cur_gray)
                  IN  /\ outcome' = "FusionError"
                      /\ op' = "done"
                      /\ vid' = [vid EXCEPT !.pc = "raised", !.cur_gray = cur_gray,
                                            !.score_map = score_map, !.pv = pv,
                                            !.prev_gray = st.gray, !.prev_cfd = st.cfd]
             ELSE \E optflow_map \in {postprocess_v(cur_gray, score_map, vid.prev_gray,
                                                      vid.prev_cfd, vid.is_init)} :
                      /\ vid' = [vid EXCEPT !.pc = "store", !.cur_gray = cur_gray,
                                            !.score_map = score_map, !.pv = pv,
                                            !.optflow_map = optflow_map,
                                            !.fusion = [n |-> vid.n, gray |-> cur_gray,
                                                        cfd |-> optflow_map]]
                      /\ UNCHANGED <<op, outcome>>
    /\ UNCHANGED <<environ, self, effects, seg, sc, streams>>

\* lines 271-272 / 306-307: the fusion state is replaced
VidStore ==
    /\ op = "video_segment" /\ vid.pc = "store"
    /\ vid' = [vid EXCEPT !.pc = "finalize",
                          !.before = [gray |-> vid.prev_gray, cfd |-> vid.prev_cfd],
                          !.prev_gray = vid.cur_gray,
                          !.prev_cfd = vid.optflow_map]
    /\ UNCHANGED <<environ, self, op, outcome, effects, seg, sc, streams>>

\* lines 274-279 / 308-313: blur, threshold, resize to the capture's size
VidFinalize ==
    /\ op = "video_segment" /\ vid.pc = "finalize"
    /\ \E optflow_map \in {Finalize(vid.optflow_map)} :
           vid' = [vid EXCEPT !.pc = "emit", !.optflow_map = optflow_map,
                              !.img_matting = cv2_resize(optflow_map,
                                                 VideoDsize(vid.width, vid.height))]
    /\ UNCHANGED <<environ, self, op, outcome, effects, seg, sc, streams>>

\* line 280 / lines 314-316: the composite is written, or shown; in the
\* camera branch the key q leaves the loop
VidEmit ==
    /\ op = "video_segment" /\ vid.pc = "emit"
    /\ \E quit \in (IF vid.has_path THEN {FALSE} ELSE BOOLEAN) :
          IF quit
          THEN /\ vid' = [vid EXCEPT !.pc = "released"]
               /\ op' = "done"
               /\ outcome' = "returned"
               /\ effects' = effects \cup {"imshow", "release"}
          ELSE /\ vid' = [vid EXCEPT !.pc = "loop"]
               /\ effects' = effects \cup {IF vid.has_path THEN "write" ELSE "imshow"}
               /\ UNCHANGED <<op, outcome>>
    /\ UNCHANGED <<environ, self, seg, sc, streams>>

(* ------------------- callers of video_stream_segment ------------------ *)
\* a caller that has made no call yet: frame_id counts its calls
NewStream == [frame_id |-> 0,
              prev_gray |-> np_zeros(resize_h, resize_w),
              prev_cfd |-> np_zeros(resize_h, resize_w),
              frames |-> <<>>, results |-> <<>>]

\* caller s hands its next frame to video_stream_segment and feeds the 2nd and
\* 3rd returned values back as prev_gray and prev_cfd of its next call
StreamStep(s, FrameSet) ==
    /\ op = "idle"
    /\ streams[s].frame_id < StreamLen
    /\ \E frame_org \in FrameSet :
          \E st \in {streams[s]} :
          \E r \in {video_stream_segment(self, frame_org, st.frame_id + 1,
                                         st.prev_gray, st.prev_cfd, FALSE)} :
              /\ self' = r.self
              /\ sc' = r.call
              /\ outcome' = r.call.outcome
              /\ streams' = [streams EXCEPT ![s] =
                    [frame_id |-> st.frame_id + 1,
                     prev_gray |-> r.call.ret[2],
                     prev_cfd |-> r.call.ret[3],
                     frames |-> Append(st.frames, frame_org),
                     results |-> Append(st.results, r.call.ret)]]
    /\ effects' = {"run"}
    /\ UNCHANGED <<environ, op, seg, vid>>

(* ------------------------------ lifecycle ----------------------------- *)
\* ShufflenetHumanSeg() is constructed
Construct ==
    /\ op = "new"
    /\ self' = _set_config(NewObject, environ)
    /\ op' = "idle"
    /\ UNCHANGED <<environ, outcome, effects, seg, vid, sc, streams>>

\* the process's environment changes between two calls
SetEnv ==
    /\ op \in {"new", "idle"}
    /\ \E e \in EnvValues \ {environ} : environ' = e
    /\ UNCHANGED <<self, op, outcome, effects, seg, vid, sc, streams>>

\* the caller is finished with the ended call's result and goes on
Continue ==
    /\ op = "done"
    /\ op' = "idle"
    /\ outcome' = "none"
    /\ effects' = {}
    /\ seg' = NoSeg
    /\ vid' = NoVid
    /\ sc' = NoSc
    /\ UNCHANGED <<environ, self, streams>>

(* ---------------------------- input families -------------------------- *)
RECURSIVE SeqsUpTo(_, _)
SeqsUpTo(S, n) ==
    IF n = 0 THEN {<<>>}
    ELSE LET shorter == SeqsUpTo(S, n - 1)
         IN  shorter \cup {Append(q, x) : q \in {t \in shorter : Len(t) = n - 1}, x \in S}

WhiteFrame == FrameOf(1, 1, 0)
SegImages == {FrameOf(1, MaxDim, 0), FrameOf(MaxDim, 1, 1)}
StreamFrames == {FrameOf(MaxDim, 1, k) : k \in 0..MaxContent}

\* arrays a caller of video_stream_segment may hold: zeros, or the gray
\* frame, the score map and the returned map of an earlier frame
EarlierFrame == FrameOf(MaxDim, 1, 1)
WorkScore(f) == ScoreMap(<<Net(preprocess_v(f, resize_w, resize_h))>>)
CallerGrays ==
    {np_zeros(resize_h, resize_w), GrayOf(preprocess_v(EarlierFrame, resize_w, resize_h))}
CallerCfds ==
    {np_zeros(resize_h, resize_w), WorkScore(EarlierFrame), Finalize(WorkScore(EarlierFrame))}

(* --------------------------- specifications --------------------------- *)
\* the module's life: construction, environment changes, and calls of the
\* three entry points on or off the GPU
Init ==
    /\ environ \in EnvValues
    /\ self = NewObject
    /\ op = "new"
    /\ outcome = "none"
    /\ effects = {}
    /\ seg = NoSeg
    /\ vid = NoVid
    /\ sc = NoSc
    /\ streams = NoStreams

Next ==
    \/ Construct
    \/ SetEnv
    \/ Continue
    \/ SegmentCall({<<>>, <<WhiteFrame>>}, {1}, BOOLEAN)
    \/ SegCheck
    \/ SegRead
    \/ SegBatch
    \/ SegReturn
    \/ VideoCall(BOOLEAN, BOOLEAN, {[opens |-> o, width |-> 1, height |-> 1] : o \in BOOLEAN})
    \/ VidCheck
    \/ VidOpen
    \/ VidRead({0}, 1)
    \/ VidEnd
    \/ VidInfer
    \/ VidFuse
    \/ VidStore
    \/ VidFinalize
    \/ VidEmit
    \/ StreamCall({WhiteFrame}, {1}, {np_zeros(resize_h, resize_w)},
                  {np_zeros(resize_h, resize_w)}, BOOLEAN)

Spec == Init /\ [][Next]_vars

\* a module constructed where CUDA_VISIBLE_DEVICES is unset
InitConstructed ==
    /\ environ = Unset
    /\ self = _set_config(NewObject, Unset)
    /\ op = "idle"
    /\ outcome = "none"
    /\ effects = {}
    /\ seg = NoSeg
    /\ vid = NoVid
    /\ sc = NoSc
    /\ streams = NoStreams

\* segment and serving_method on the CPU, every input list and batch size
NextSegment ==
    \/ SegmentCall(SeqsUpTo(SegImages, MaxImages), 1..MaxBatch, {FALSE})
    \/ ServingCall(SeqsUpTo(SegImages, MaxImages))
    \/ SegCheck
    \/ SegRead
    \/ SegBatch
    \/ SegReturn
    \/ Continue

SpecSegment == InitConstructed /\ [][NextSegment]_vars

\* video_segment and single calls of video_stream_segment on the CPU
NextFrames ==
    \/ VideoCall(BOOLEAN, {FALSE}, Captures)
    \/ VidCheck
    \/ VidOpen
    \/ VidRead(0..MaxContent, MaxFrames)
    \/ VidEnd
    \/ VidInfer
    \/ VidFuse
    \/ VidStore
    \/ VidFinalize
    \/ VidEmit
    \/ StreamCall(Frames, 1..MaxFrames, CallerGrays, CallerCfds, {FALSE})
    \/ Continue

SpecFrames == InitConstructed /\ [][NextFrames]_vars

\* two callers interleaving their calls on one module instance
InitStreams ==
    /\ environ = Unset
    /\ self = _set_config(NewObject, Unset)
    /\ op = "idle"
    /\ outcome = "none"
    /\ effects = {}
    /\ seg = NoSeg
    /\ vid = NoVid
    /\ sc = NoSc
    /\ streams = <<NewStream, NewStream>>

NextStreams ==
    \/ StreamStep(1, StreamFrames)
    \/ StreamStep(2, StreamFrames)

SpecStreams == InitStreams /\ [][NextStreams]_vars

(* ------------------------------- claims ------------------------------- *)
StreamReturned == sc.called /\ sc.outcome = "returned"
IsZeroState(a) == Shape(a) = <<WorkRes, WorkRes>> /\ AllPixels(a, 0)

\* C1: the third value video_stream_segment returns is the fused confidence
\* map its fusion step (postprocess_v) produced for the frame, the value
\* video_segment stores as prev_cfd.
C1_ThirdReturnIsFusedMap ==
    StreamReturned => sc.ret[3] = sc.fused

\* C2: the is_init flag handed to the fusion step is true for the first frame
\* of a sequence (frame_id 1) and false for every later frame, in
\* video_stream_segment and in video_segment.
C2_IsInitOnlyOnFirstFrame ==
    /\ StreamReturned => (sc.pv.is_init <=> sc.frame_id = 1)
    /\ vid.pv.n > 0 => (vid.pv.is_init <=> vid.pv.n = 1)

\* C3: the fusion state is all zero at the first frame: video_segment enters
\* its loop, and fuses its first frame, with zero prev_gray and prev_cfd at the
\* working resolution; video_stream_segment with frame_id 1 hands zeros to
\* the fusion step and returns what it returns for zero arguments, whatever
\* the caller supplied, and with any other frame_id hands on the caller's arrays.
C3_ZeroStateOnFirstFrame ==
    /\ (vid.pc = "loop" /\ vid.n = 0) =>
          IsZeroState(vid.prev_gray) /\ IsZeroState(vid.prev_cfd)
    /\ vid.pv.n = 1 => IsZeroState(vid.pv.prev_gray) /\ IsZeroState(vid.pv.prev_cfd)
    /\ (StreamReturned /\ sc.frame_id = 1) =>
          /\ IsZeroState(sc.pv.prev_gray) /\ IsZeroState(sc.pv.prev_cfd)
          /\ sc.ret = video_stream_segment(self, sc.frame_org, 1,
                         np_zeros(WorkRes, WorkRes), np_zeros(WorkRes, WorkRes),
                         sc.use_gpu).call.ret
    /\ (StreamReturned /\ sc.frame_id # 1) =>
          sc.pv.prev_gray = sc.prev_gray /\ sc.pv.prev_cfd = sc.prev_cfd

C3_Witness ==
    /\ StreamReturned /\ sc.frame_id = 1
    /\ ~AllPixels(sc.prev_gray, 0) /\ ~AllPixels(sc.prev_cfd, 0)

\* C4: segment returns one result per input, in input order, for every
\* number of inputs and every batch size: after each batch the results are
\* those of the first min(iter_id * batch_size, n) inputs, and at the return
\* the i-th result (encoded, under serving_method) is that of the i-th input.
ResultOf(img) ==
    postprocess(Net(preprocess_v(img, WorkRes, WorkRes)), img, Shape(img))
C4_OneResultPerInput ==
    /\ seg.pc = "batch" =>
          /\ Len(seg.res) = Min(seg.iter_id * seg.batch_size, Len(seg.images))
          /\ \A i \in 1..Len(seg.res) : seg.res[i] = ResultOf(seg.images[i])
    /\ seg.pc = "returned" =>
          /\ Len(seg.ret) = Len(seg.images)
          /\ \A i \in 1..Len(seg.ret) :
                seg.ret[i] = IF seg.serving
                             THEN [data |-> cv2_to_base64(ResultOf(seg.images[i]).data)]
                             ELSE ResultOf(seg.images[i])

C4_Witness ==
    /\ seg.pc = "returned" /\ Len(seg.images) = 3 /\ seg.batch_size = 2
    /\ seg.images[1] # seg.images[2] /\ seg.images[2] # seg.images[3]

\* C5: the matte has the input frame's size: video_stream_segment's first
\* returned value has the rows and columns of frame_org, and the matte
\* video_segment composites has the capture's frame height and width.
C5_MatteHasFrameSize ==
    /\ StreamReturned =>
          /\ Len(sc.ret[1]) = Len(sc.frame_org)
          /\ \A r \in 1..Len(sc.ret[1]) : Len(sc.ret[1][r]) = Len(sc.frame_org[r])
    /\ vid.pc = "emit" =>
          /\ Len(vid.img_matting) = vid.cap.height
          /\ \A r \in 1..Len(vid.img_matting) : Len(vid.img_matting[r]) = vid.cap.width
          /\ Shape(vid.img_matting) = Shape(vid.frame_org)

C5_Witness ==
    StreamReturned /\ Len(sc.frame_org) # Len(sc.frame_org[1])

\* C6: with use_gpu true and CUDA_VISIBLE_DEVICES unset, empty or not
\* starting with a digit, segment and video_segment raise RuntimeError having
\* done nothing but read the environment; with use_gpu false they never read
\* the environment and use only the CPU predictor.
BadEnv == ~environ.has \/ environ.val = <<>> \/ Head(environ.val) \notin Digits
GpuCheckFirst(call) ==
    /\ (call.use_gpu /\ BadEnv) =>
          /\ call.pc \in {"check", "raised"}
          /\ effects \subseteq {"environ"}
          /\ call.pc = "raised" => outcome = "RuntimeError" /\ effects = {"environ"}
    /\ ~call.use_gpu =>
          /\ "environ" \notin effects
          /\ call.used \subseteq {"cpu_predictor"}
          /\ outcome # "RuntimeError"
C6_GpuCheckBeforeAnything ==
    /\ seg.pc # "none" => GpuCheckFirst(seg)
    /\ vid.pc # "none" => GpuCheckFirst(vid)

C6_Witness ==
    /\ vid.pc = "raised" /\ vid.use_gpu /\ outcome = "RuntimeError"
    /\ environ.has /\ environ.val = <<"x">>

\* C7: video_stream_segment keeps no fusion state in the module and leaves the
\* caller's arrays alone: however the calls of two callers interleave on one
\* module instance, each caller's results are those it gets when run alone.
RECURSIVE SoloResults(_, _, _, _, _)
SoloResults(slf, frames, i, prev_gray, prev_cfd) ==
    IF i > Len(frames) THEN <<>>
    ELSE LET r == video_stream_segment(slf, frames[i], i, prev_gray, prev_cfd, FALSE)
         IN  <<r.call.ret>> \o SoloResults(r.self, frames, i + 1, r.call.ret[2], r.call.ret[3])
RunAlone(frames) ==
    SoloResults(_set_config(NewObject, Unset), frames, 1,
                np_zeros(WorkRes, WorkRes), np_zeros(WorkRes, WorkRes))
C7_StreamsIndependent ==
    /\ \A s \in 1..Len(streams) : streams[s].results = RunAlone(streams[s].frames)
    /\ Len(streams) > 0 => self.attrs = {"cpu_predictor"}
    /\ sc.called => sc.caller_after = <<sc.prev_gray, sc.prev_cfd>>

C7_Witness ==
    /\ Len(streams) = 2
    /\ Len(streams[1].results) = 2 /\ Len(streams[2].results) = 2
    /\ streams[1].frames[1] # streams[2].frames[1]
    /\ streams[1].results # streams[2].results

\* C8: static input does not drift: while every frame read so far is the same
\* and the network's foreground probability is 1 everywhere (a confidence map
\* of 255 everywhere), the matte of each frame is 1 everywhere and, from the
\* second frame on, the fusion state after the frame is the state after the
\* frame before (after frame 3 it is the state after frame 2).
StaticForeground ==
    /\ vid.pc \in {"finalize", "emit"}
    /\ vid.static
    /\ AllPixels(vid.output[1], FX)
C8_StaticInputNoDrift ==
    StaticForeground =>
        /\ AllPixels(vid.score_map, 255 * FX)
        /\ AllPixels(vid.prev_cfd, 255 * FX)
        /\ vid.pc = "emit" =>
              AllPixels(vid.img_matting, FX) /\ Shape(vid.img_matting) = Shape(vid.frame_org)
        /\ vid.n >= 2 =>
              vid.prev_gray = vid.before.gray /\ vid.prev_cfd = vid.before.cfd

C8_Witness ==
    StaticForeground /\ vid.pc = "emit" /\ vid.n = 3

\* C9: video_segment exchanges the fusion state as a whole: at every loop
\* boundary and at every exit (end of stream, q, an exception of inference or
\* of the fusion step) prev_gray and prev_cfd are both the initial zeros or
\* the gray frame and the fused map of the one most recently fused frame.
C9_FusionStateExchangedWhole ==
    (vid.pc \in {"loop", "released", "raised"} /\ vid.is_init) =>
        /\ vid.fusion.n \in {vid.n, vid.n - 1}
        /\ vid.pc \in {"loop", "released"} => vid.fusion.n = vid.n
        /\ IF vid.fusion.n = 0
           THEN IsZeroState(vid.prev_gray) /\ IsZeroState(vid.prev_cfd)
           ELSE vid.prev_gray = vid.fusion.gray /\ vid.prev_cfd = vid.fusion.cfd

C9_Witness ==
    /\ vid.pc = "raised" /\ outcome = "FusionError"
    /\ vid.fusion.n = 1 /\ vid.n = 2
    /\ vid.cur_gray # vid.prev_gray

\* C10: a call with use_gpu true either raises the RuntimeError about
\* CUDA_VISIBLE_DEVICES or selects a gpu_predictor that _set_config created:
\* the predictor selection is never reached with gpu_predictor missing.
C10_GpuPredictorExistsWhenSelected ==
    /\ outcome # "AttributeError"
    /\ \A call \in {seg, vid, sc} :
          "gpu_predictor" \in call.used => HasAttr(self, "gpu_predictor")

=============================================================================
